---- MODULE Spec2Model ----
(***************************************************************************)
(* Model of the merge-alert service: the PRTracker store (pr_tracker.py)   *)
(* and the polling loop that drives it (main.py).                          *)
(*                                                                         *)
(* Time is counted in whole days.  A timestamp string written by the       *)
(* program is modelled by the pair (tsKind, ts): tsKind = "iso" with the   *)
(* day it denotes; hand-made files may also carry a missing timestamp, a   *)
(* string that does not parse, or a value that is not a string.            *)
(***************************************************************************)
EXTENDS Integers, Sequences, FiniteSets, TLC

\* ---------------------------------------------------------------- bounds
MaxFileLen == 3
MaxTicks == 3

\* ------------------------------------------------------ program constants
RetentionDays == 30

\* ids the hosting API assigns to pull requests (positive); the code only
\* tests ids for equality and for being zero, so two of them stand for all
EventIds == {1, 2}
\* ids the store can be asked about (any integer, 0 included)
Ids == {0} \cup EventIds
\* how far the clock moves in one step: a day, or just short of the window
TickDays == {1, RetentionDays - 1}
\* ages (in days) of the timestamps found in a pre-existing backing file
InitAges == {2, RetentionDays, RetentionDays + 10}
\* arguments given to cleanup_old_entries: the default and a short window
CleanupDays == {RetentionDays, 1}
\* config.target_branches
target_branches == <<"staging", "main">>

VARIABLES
    now,          \* datetime.utcnow(), in days
    ticks,        \* number of clock steps taken (bounds the clock)
    storage_file, \* content of seen_prs.json
    seen_prs,     \* PRTracker.seen_prs
    pc,           \* position of the process: "down" when it is not running
    branch,       \* main: index into config.target_branches
    all_new_prs,  \* main: all_new_prs (ids), then the part not yet sent
    op,           \* history: the last operation and its arguments
    loaded,       \* history: the file the last load read, when, and whether
                  \* the disk took writes
    stopped,      \* history: the store as it was when the process stopped
    synced,       \* history: the last save of this process succeeded
    sent,         \* history: sends per id in this process
    fetched,      \* history: ids returned by successful fetches, this process
    atStart,      \* history: seen_prs as loaded when this process started
    watched,      \* history: the id whose durability is followed
    durable,      \* history: the last insertion of `watched` whose save succeeded
                  \* (StoreSpec: the last insertion, set if its save succeeded)
    legacy,       \* history: ids that a load took from a bare integer
    temp_file,    \* content of seen_prs.json.tmp
    saving,       \* position inside save_seen_prs, and what the last save did
    writers       \* OverlapSpec: the saves of two processes that share the file
\* loaded is kept by LoadSpec; stopped, synced and legacy by StoreSpec; sent,
\* fetched, atStart and durable by Spec; temp_file and saving by PersistSpec,
\* where save_seen_prs is taken one system call at a time

vars == <<now, ticks, storage_file, seen_prs, pc, branch, all_new_prs, op, loaded, stopped, synced, sent,
          fetched, atStart, watched, durable, legacy, temp_file, saving, writers>>

\* ------------------------------------------------------------ file format
IntEntry(id) ==
    [tag |-> "int", hasId |-> TRUE, id |-> id, tsKind |-> "none", ts |-> 0]

DictEntry(hasId, id, tsKind, ts) ==
    [tag |-> "dict", hasId |-> hasId, id |-> id, tsKind |-> tsKind, ts |-> ts]

AbsentFile == [kind |-> "absent", last_updated |-> 0, prs |-> <<>>]
\* a file that json.load rejects, or whose JSON is not an object with a list
\* under 'prs': reading it raises inside load_seen_prs
CorruptFile == [kind |-> "corrupt", last_updated |-> 0, prs |-> <<>>]
JsonFile(t, prs) == [kind |-> "json", last_updated |-> t, prs |-> prs]

\* datetime.utcnow().isoformat() + 'Z'
FormatTimestamp(t) == [tsKind |-> "iso", ts |-> t]

\* datetime.fromisoformat(s.replace('Z', '+00:00')).replace(tzinfo=None):
\* "attr" when s has no replace method, "value" when s does not parse
ParseTimestamp(e) ==
    CASE e.tsKind = "iso"    -> [err |-> "none", t |-> e.ts]
      [] e.tsKind = "nonstr" -> [err |-> "attr", t |-> 0]
      [] OTHER               -> [err |-> "value", t |-> 0]

\* the ids of a set in the order a comprehension over the set yields them
RECURSIVE SetToSeq(_)
SetToSeq(S) ==
    IF S = {} THEN <<>>
    ELSE LET m == CHOOSE x \in S : \A y \in S : x <= y
         IN  <<m>> \o SetToSeq(S \ {m})

\* ------------------------------------------------------------- PRTracker
has_seen_pr(seen, pr_id) == pr_id \in seen

get_seen_count(seen) == Cardinality(seen)

\* save_seen_prs: every id of memory is written with the current time; on
\* failure the temporary file is removed and the backing file keeps its content
save_seen_prs(f, seen, t, ok) ==
    IF ok
    THEN LET stamp == FormatTimestamp(t)
             ids == SetToSeq(seen)
         IN  JsonFile(t, [i \in 1..Len(ids) |->
                            DictEntry(TRUE, ids[i], stamp.tsKind, stamp.ts)])
    ELSE f

\* LoadEntry with the expiry comparison reversed
LoadEntryReversed(e, cutoff_time) ==
    IF e.tag = "dict"
    THEN IF e.hasId /\ e.id # 0 /\ e.tsKind # "none"
         THEN LET p == ParseTimestamp(e)
              IN  CASE p.err = "attr"  -> [raised |-> TRUE, add |-> {}]
                    [] p.err = "value" -> [raised |-> FALSE, add |-> {}]
                    [] OTHER -> [raised |-> FALSE,
                                 add |-> IF p.t <= cutoff_time THEN {e.id} ELSE {}]
         ELSE [raised |-> FALSE, add |-> {}]
    ELSE [raised |-> FALSE, add |-> {e.id}]

\* LoadEntry without the branch for bare integers
LoadEntryNoLegacy(e, cutoff_time) ==
    IF e.tag = "dict"
    THEN IF e.hasId /\ e.id # 0 /\ e.tsKind # "none"
         THEN LET p == ParseTimestamp(e)
              IN  CASE p.err = "attr"  -> [raised |-> TRUE, add |-> {}]
                    [] p.err = "value" -> [raised |-> FALSE, add |-> {}]
                    [] OTHER -> [raised |-> FALSE,
                                 add |-> IF p.t >= cutoff_time THEN {e.id} ELSE {}]
         ELSE [raised |-> FALSE, add |-> {}]
    ELSE [raised |-> FALSE, add |-> {}]

\* one iteration of the loop of load_seen_prs over data['prs']
LoadEntry(e, cutoff_time) ==
    IF e.tag = "dict"
    THEN IF e.hasId /\ e.id # 0 /\ e.tsKind # "none"
         THEN LET p == ParseTimestamp(e)
              IN  CASE p.err = "attr"  -> [raised |-> TRUE, add |-> {}]
                    [] p.err = "value" -> [raised |-> FALSE, add |-> {}]
                    [] OTHER -> [raised |-> FALSE,
                                 add |-> IF p.t >= cutoff_time THEN {e.id} ELSE {}]
         ELSE [raised |-> FALSE, add |-> {}]
    ELSE [raised |-> FALSE, add |-> {e.id}]

RECURSIVE LoadScan(_, _)
LoadScan(prs, cutoff_time) ==
    IF prs = <<>> THEN [raised |-> FALSE, valid |-> {}]
    ELSE LET h == LoadEntry(Head(prs), cutoff_time)
             r == LoadScan(Tail(prs), cutoff_time)
         IN  [raised |-> h.raised \/ r.raised, valid |-> h.add \cup r.valid]

\* load_seen_prs without the save of the cleaned-up data
load_without_rewrite(f, t, ok) ==
    IF f.kind = "absent" THEN [seen |-> {}, file |-> f]
    ELSE IF f.kind = "corrupt" THEN [seen |-> {}, file |-> f]
    ELSE LET r == LoadScan(f.prs, t - RetentionDays)
         IN  IF r.raised THEN [seen |-> {}, file |-> f]
             ELSE [seen |-> r.valid, file |-> f]

\* load_seen_prs, called by __init__ on an empty seen_prs
load_seen_prs(f, t, ok) ==
    IF f.kind = "absent" THEN [seen |-> {}, file |-> f]
    ELSE IF f.kind = "corrupt" THEN [seen |-> {}, file |-> f]
    ELSE LET r == LoadScan(f.prs, t - RetentionDays)
         IN  IF r.raised THEN [seen |-> {}, file |-> f]
             ELSE IF Cardinality(r.valid) # Len(f.prs)
                  THEN [seen |-> r.valid, file |-> save_seen_prs(f, r.valid, t, ok)]
                  ELSE [seen |-> r.valid, file |-> f]

\* whether load_seen_prs calls save_seen_prs
LoadSaves(f, t) ==
    /\ f.kind = "json"
    /\ LET r == LoadScan(f.prs, t - RetentionDays)
       IN  ~r.raised /\ Cardinality(r.valid) # Len(f.prs)

\* mark_pr_as_seen without the membership test
mark_always_saves(seen, f, pr_id, t, ok) ==
    [seen |-> seen \cup {pr_id},
     file |-> save_seen_prs(f, seen \cup {pr_id}, t, ok)]

\* mark_pr_as_seen that writes the id to the file but not to memory
mark_forgets(seen, f, pr_id, t, ok) ==
    IF pr_id \notin seen
    THEN [seen |-> seen,
          file |-> save_seen_prs(f, seen \cup {pr_id}, t, ok)]
    ELSE [seen |-> seen, file |-> f]

mark_pr_as_seen(seen, f, pr_id, t, ok) ==
    IF pr_id \notin seen
    THEN [seen |-> seen \cup {pr_id},
          file |-> save_seen_prs(f, seen \cup {pr_id}, t, ok)]
    ELSE [seen |-> seen, file |-> f]

\* CleanupEntry that drops a record whose age is exactly the window
CleanupEntryStrict(e, cutoff_time) ==
    IF e.tag = "dict"
    THEN IF e.tsKind # "none"
         THEN LET p == ParseTimestamp(e)
              IN  CASE p.err = "attr"  -> [raised |-> TRUE, add |-> {}]
                    [] p.err = "value" -> [raised |-> FALSE, add |-> {}]
                    [] OTHER ->
                         IF p.t > cutoff_time
                         THEN IF e.hasId THEN [raised |-> FALSE, add |-> {e.id}]
                              ELSE [raised |-> TRUE, add |-> {}]
                         ELSE [raised |-> FALSE, add |-> {}]
         ELSE [raised |-> FALSE, add |-> {}]
    ELSE [raised |-> FALSE, add |-> {e.id}]

\* one iteration of the loop of cleanup_old_entries
CleanupEntry(e, cutoff_time) ==
    IF e.tag = "dict"
    THEN IF e.tsKind # "none"
         THEN LET p == ParseTimestamp(e)
              IN  CASE p.err = "attr"  -> [raised |-> TRUE, add |-> {}]
                    [] p.err = "value" -> [raised |-> FALSE, add |-> {}]
                    [] OTHER ->
                         IF p.t >= cutoff_time
                         THEN IF e.hasId THEN [raised |-> FALSE, add |-> {e.id}]
                              ELSE [raised |-> TRUE, add |-> {}]
                         ELSE [raised |-> FALSE, add |-> {}]
         ELSE [raised |-> FALSE, add |-> {}]
    ELSE [raised |-> FALSE, add |-> {e.id}]

\* the loop stops at the first entry that raises
RECURSIVE CleanupScan(_, _)
CleanupScan(prs, cutoff_time) ==
    IF prs = <<>> THEN [raised |-> FALSE, valid |-> {}]
    ELSE LET h == CleanupEntry(Head(prs), cutoff_time)
             r == CleanupScan(Tail(prs), cutoff_time)
         IN  [raised |-> h.raised \/ r.raised, valid |-> h.add \cup r.valid]

cleanup_old_entries(seen, f, days, t, ok) ==
    IF f.kind = "absent" THEN [seen |-> seen, file |-> f]
    ELSE IF f.kind = "corrupt" THEN [seen |-> seen, file |-> f]
    ELSE LET r == CleanupScan(f.prs, t - days)
         IN  IF r.raised THEN [seen |-> seen, file |-> f]
             ELSE [seen |-> r.valid, file |-> save_seen_prs(f, r.valid, t, ok)]


\* --------------------------------------------------------- initial states
\* the record a slot of a pre-existing file holds, by kind
MkEntry(id, kind) ==
    CASE kind = "int"    -> IntEntry(id)
      [] kind = "young"  -> DictEntry(TRUE, id, "iso", 0 - 2)
      [] kind = "edge"   -> DictEntry(TRUE, id, "iso", 0 - RetentionDays)
      [] kind = "old"    -> DictEntry(TRUE, id, "iso", 0 - (RetentionDays + 10))
      [] kind = "nots"   -> DictEntry(TRUE, id, "none", 0)
      [] kind = "badts"  -> DictEntry(TRUE, id, "bad", 0)
      [] kind = "nonstr" -> DictEntry(TRUE, id, "nonstr", 0)
      [] OTHER           -> DictEntry(FALSE, 0, "iso", 0 - 2)

EntryKinds == {"int", "young", "edge", "old", "nots", "badts", "nonstr", "noid"}

\* the prs lists of at most MaxFileLen records, one per id, made of `kinds`
PrsLists(ids, kinds) ==
    UNION { { [i \in 1..Cardinality(S) |-> MkEntry(SetToSeq(S)[i], g[SetToSeq(S)[i]])] :
                g \in [S -> kinds] } :
            S \in {T \in SUBSET ids : Cardinality(T) <= MaxFileLen} }

\* any backing file an earlier run or an operator may have left
AnyFiles ==
    {AbsentFile, CorruptFile}
      \cup {JsonFile(0 - (RetentionDays + 10), prs) : prs \in PrsLists(Ids, EntryKinds)}

\* first run (no file), or the file of an earlier version: bare integers
LegacyFiles ==
    {AbsentFile}
      \cup {JsonFile(0 - (RetentionDays + 10), prs) : prs \in PrsLists(EventIds, {"int"})}

NoOp == [name |-> "init", id |-> 0, already |-> FALSE]

NotStopped == [valid |-> FALSE, seen |-> {}, time |-> 0, synced |-> FALSE]

\* two processes constructed over the same storage_file
Writers == {"a", "b"}

\* a process that is not inside save_seen_prs: it has no file open
IdleWriter == [step |-> "idle", at |-> "none", data |-> {}]

\* no call of save_seen_prs is under way and none has returned yet
NotSaving == [step |-> "idle", caller |-> "none", id |-> 0, count |-> 0,
              prev |-> AbsentFile, outcome |-> "none"]

InitWith(files, watch) ==
    /\ now = 0
    /\ ticks = 0
    /\ storage_file \in files
    /\ seen_prs = {}
    /\ pc = "down"
    /\ branch = 1
    /\ all_new_prs = <<>>
    /\ op = NoOp
    /\ loaded = [file |-> AbsentFile, time |-> 0, ok |-> FALSE]
    /\ stopped = NotStopped
    /\ synced = FALSE
    /\ sent = [i \in Ids |-> 0]
    /\ fetched = {}
    /\ atStart = {}
    /\ watched \in watch
    /\ durable = [set |-> FALSE, t |-> 0]
    /\ legacy = {}
    /\ temp_file = AbsentFile
    /\ writers = [w \in Writers |-> IdleWriter]
    /\ saving = NotSaving

\* ------------------------------------------------------------ the store
LegacyIds(f) ==
    IF f.kind = "json"
    THEN {f.prs[i].id : i \in {j \in 1..Len(f.prs) : f.prs[j].tag = "int"}}
    ELSE {}

loopVars == <<branch, all_new_prs, sent, fetched, atStart, watched,
              durable>>

persistVars == <<temp_file, saving, writers>>

\* PRTracker(): __init__ runs load_seen_prs; the process goes to `next`
Construct(ok, next) ==
    /\ pc = "down"
    /\ LET r == load_seen_prs(storage_file, now, ok)
       IN  /\ seen_prs' = r.seen
           /\ storage_file' = r.file
    /\ op' = [name |-> "load", id |-> 0, already |-> FALSE]
    /\ pc' = next
    /\ UNCHANGED <<now, ticks>>
    /\ UNCHANGED persistVars

\* construction, keeping the file that was read
NewStore(ok) ==
    /\ Construct(ok, "up")
    /\ loaded' = [file |-> storage_file, time |-> now, ok |-> ok]
    /\ UNCHANGED <<legacy, stopped, synced>>
    /\ UNCHANGED loopVars

\* construction, keeping the ids that were read from bare integers
Restart(ok) ==
    /\ Construct(ok, "up")
    /\ legacy' = IF storage_file.kind = "json"
                    /\ ~LoadScan(storage_file.prs, now - RetentionDays).raised
                 THEN legacy \cup LegacyIds(storage_file)
                 ELSE legacy
    /\ synced' = (LoadSaves(storage_file, now) /\ ok)
    /\ stopped' = NotStopped
    /\ UNCHANGED loaded
    /\ UNCHANGED loopVars

MarkSeen(pr_id, ok) ==
    /\ pc = "up"
    /\ LET r == mark_pr_as_seen(seen_prs, storage_file, pr_id, now, ok)
       IN  /\ seen_prs' = r.seen
           /\ storage_file' = r.file
    /\ synced' = IF has_seen_pr(seen_prs, pr_id) THEN synced ELSE ok
    /\ op' = [name |-> "markSeen", id |-> pr_id,
              already |-> has_seen_pr(seen_prs, pr_id)]
    /\ durable' = IF pr_id = watched /\ ~has_seen_pr(seen_prs, pr_id)
                  THEN [set |-> ok, t |-> now]
                  ELSE durable
    /\ UNCHANGED <<now, ticks, pc, loaded, stopped, legacy>>
    /\ UNCHANGED <<branch, all_new_prs, sent, fetched, atStart, watched>>
    /\ UNCHANGED persistVars

Cleanup(days, ok) ==
    /\ pc = "up"
    /\ LET r == cleanup_old_entries(seen_prs, storage_file, days, now, ok)
       IN  /\ seen_prs' = r.seen
           /\ storage_file' = r.file
    /\ synced' = IF storage_file.kind = "json"
                     /\ ~CleanupScan(storage_file.prs, now - days).raised
                  THEN ok ELSE synced
    /\ op' = [name |-> "cleanup", id |-> days, already |-> FALSE]
    /\ UNCHANGED <<now, ticks, pc, loaded, stopped, legacy>>
    /\ UNCHANGED loopVars
    /\ UNCHANGED persistVars

\* the clock moves on
Tick(d) ==
    /\ ticks < MaxTicks
    /\ now' = now + d
    /\ ticks' = ticks + 1
    /\ op' = [name |-> "tick", id |-> 0, already |-> FALSE]
    /\ UNCHANGED <<storage_file, seen_prs, pc, loaded, stopped, synced, legacy>>
    /\ UNCHANGED loopVars
    /\ UNCHANGED persistVars

\* the process ends (interrupt, kill, host restart): its memory is gone
Halt ==
    /\ pc # "down"
    /\ pc' = "down"
    /\ seen_prs' = {}
    /\ branch' = 1
    /\ all_new_prs' = <<>>
    /\ sent' = [i \in Ids |-> 0]
    /\ fetched' = {}
    /\ atStart' = {}
    /\ op' = [name |-> "stop", id |-> 0, already |-> FALSE]
    /\ saving' = NotSaving
    /\ UNCHANGED <<now, ticks, storage_file, loaded, watched, durable, legacy,
                   temp_file, writers>>

\* the end of a process, keeping what its store held
StopStore ==
    /\ Halt
    /\ stopped' = [valid |-> TRUE, seen |-> seen_prs, time |-> now,
                   synced |-> synced]
    /\ synced' = FALSE

Stop ==
    /\ Halt
    /\ UNCHANGED <<stopped, synced>>

\* a store driven through its interface
InitStore == InitWith(LegacyFiles, {1})

NextStore ==
    \/ \E ok \in BOOLEAN : Restart(ok)
    \/ \E pr_id \in Ids, ok \in BOOLEAN : MarkSeen(pr_id, ok)
    \/ \E days \in CleanupDays, ok \in BOOLEAN : Cleanup(days, ok)
    \/ \E d \in TickDays : Tick(d)
    \/ StopStore

StoreSpec == InitStore /\ [][NextStore]_vars

\* a store constructed over any backing file, and pruned
InitLoad == InitWith(AnyFiles, {1})

NextLoad ==
    \/ \E ok \in BOOLEAN : NewStore(ok)
    \/ \E days \in CleanupDays, ok \in BOOLEAN : Cleanup(days, ok)
    \/ StopStore

LoadSpec == InitLoad /\ [][NextLoad]_vars

\* ------------------------------------------- save_seen_prs, step by step
\* the callers of save_seen_prs run up to the call; the calls the save makes
\* to the operating system are then taken one at a time, and each of them
\* either succeeds or raises OSError
saveFrame == <<now, ticks, seen_prs, op, loaded, stopped, synced, legacy,
              writers>>

Saving(caller, pr_id, count) ==
    [step |-> "open", caller |-> caller, id |-> pr_id, count |-> count,
     prev |-> storage_file, outcome |-> "none"]

\* BeginLoad without the try block of load_seen_prs: the error raised by a
\* file that does not parse leaves __init__ and ends the process
BeginLoadUnguarded ==
    /\ pc = "down"
    /\ seen_prs' = load_seen_prs(storage_file, now, FALSE).seen
    /\ op' = [name |-> "load", id |-> 0, already |-> FALSE]
    /\ IF LoadSaves(storage_file, now)
       THEN /\ pc' = "save"
            /\ saving' = Saving("load", 0, 0)
       ELSE /\ pc' = IF storage_file.kind = "corrupt" THEN "down" ELSE "up"
            /\ saving' = NotSaving
    /\ UNCHANGED <<now, ticks, storage_file, temp_file, writers, loaded, stopped,
                   synced, legacy>>
    /\ UNCHANGED loopVars

\* __init__ and load_seen_prs, up to the call of save_seen_prs or, when the
\* file needs no rewrite, to the return
BeginLoad ==
    /\ pc = "down"
    /\ seen_prs' = load_seen_prs(storage_file, now, FALSE).seen
    /\ op' = [name |-> "load", id |-> 0, already |-> FALSE]
    /\ IF LoadSaves(storage_file, now)
       THEN /\ pc' = "save"
            /\ saving' = Saving("load", 0, 0)
       ELSE /\ pc' = "up"
            /\ saving' = NotSaving
    /\ UNCHANGED <<now, ticks, storage_file, temp_file, writers, loaded, stopped,
                   synced, legacy>>
    /\ UNCHANGED loopVars

\* mark_pr_as_seen, up to the call of save_seen_prs or, for an id that is
\* present, to the return
BeginMark(pr_id) ==
    /\ pc = "up"
    /\ seen_prs' = mark_pr_as_seen(seen_prs, storage_file, pr_id, now, FALSE).seen
    /\ op' = [name |-> "markSeen", id |-> pr_id,
              already |-> has_seen_pr(seen_prs, pr_id)]
    /\ IF has_seen_pr(seen_prs, pr_id)
       THEN /\ pc' = "up"
            /\ saving' = NotSaving
       ELSE /\ pc' = "save"
            /\ saving' = Saving("mark", pr_id, get_seen_count(seen_prs))
    /\ UNCHANGED <<now, ticks, storage_file, temp_file, writers, loaded, stopped,
                   synced, legacy>>
    /\ UNCHANGED loopVars

\* a save that opens the backing file itself for writing
OpenInPlace(ok) ==
    /\ pc = "save"
    /\ saving.step = "open"
    /\ IF ok
       THEN /\ storage_file' = CorruptFile
            /\ saving' = [saving EXCEPT !.step = "dump"]
       ELSE /\ storage_file' = storage_file
            /\ saving' = [saving EXCEPT !.step = "except"]
    /\ UNCHANGED <<pc, temp_file>>
    /\ UNCHANGED saveFrame
    /\ UNCHANGED loopVars

\* open(temp_file, 'w') creates or truncates the temporary file; an empty or
\* partly written file does not parse
OpenTemp(ok) ==
    /\ pc = "save"
    /\ saving.step = "open"
    /\ IF ok
       THEN /\ temp_file' = CorruptFile
            /\ saving' = [saving EXCEPT !.step = "dump"]
       ELSE /\ temp_file' = temp_file
            /\ saving' = [saving EXCEPT !.step = "except"]
    /\ UNCHANGED <<pc, storage_file>>
    /\ UNCHANGED saveFrame
    /\ UNCHANGED loopVars

\* the ids a file holds
FileIds(f) ==
    IF f.kind = "json"
    THEN {f.prs[i].id : i \in {j \in 1..Len(f.prs) : f.prs[j].hasId}}
    ELSE {}

\* a dump that adds the new id to what the backing file holds instead of
\* writing memory
DumpTempIncremental(ok) ==
    /\ pc = "save"
    /\ saving.step = "dump"
    /\ IF ok
       THEN /\ temp_file' = save_seen_prs(temp_file,
                                FileIds(saving.prev) \cup (seen_prs \cap {saving.id}),
                                now, TRUE)
            /\ saving' = [saving EXCEPT !.step = "rename"]
       ELSE /\ temp_file' = CorruptFile
            /\ saving' = [saving EXCEPT !.step = "except"]
    /\ UNCHANGED <<pc, storage_file>>
    /\ UNCHANGED saveFrame
    /\ UNCHANGED loopVars

\* json.dump(data, f) and the close at the end of the with block: data holds
\* every id of memory, stamped with the current time
DumpTemp(ok) ==
    /\ pc = "save"
    /\ saving.step = "dump"
    /\ IF ok
       THEN /\ temp_file' = save_seen_prs(temp_file, seen_prs, now, TRUE)
            /\ saving' = [saving EXCEPT !.step = "rename"]
       ELSE /\ temp_file' = CorruptFile
            /\ saving' = [saving EXCEPT !.step = "except"]
    /\ UNCHANGED <<pc, storage_file>>
    /\ UNCHANGED saveFrame
    /\ UNCHANGED loopVars

\* os.rename(temp_file, self.storage_file), after which the save returns
RenameTemp(ok) ==
    /\ pc = "save"
    /\ saving.step = "rename"
    /\ IF ok
       THEN /\ storage_file' = temp_file
            /\ temp_file' = AbsentFile
            /\ saving' = [saving EXCEPT !.step = "idle", !.outcome = "saved"]
            /\ pc' = "up"
       ELSE /\ saving' = [saving EXCEPT !.step = "except"]
            /\ UNCHANGED <<pc, storage_file, temp_file>>
    /\ UNCHANGED saveFrame
    /\ UNCHANGED loopVars

\* an except block that logs the error and leaves the temporary file
RemoveTempNever(ok) ==
    /\ pc = "save"
    /\ saving.step = "except"
    /\ temp_file' = temp_file
    /\ saving' = [saving EXCEPT !.step = "idle", !.outcome = "failed"]
    /\ pc' = "up"
    /\ UNCHANGED storage_file
    /\ UNCHANGED saveFrame
    /\ UNCHANGED loopVars

\* the except block: the temporary file, if there is one, is removed; an
\* error of os.remove is swallowed and the file stays; the save returns
RemoveTemp(ok) ==
    /\ pc = "save"
    /\ saving.step = "except"
    /\ IF temp_file.kind # "absent" /\ ~ok
       THEN /\ temp_file' = temp_file
            /\ saving' = [saving EXCEPT !.step = "idle", !.outcome = "left"]
       ELSE /\ temp_file' = AbsentFile
            /\ saving' = [saving EXCEPT !.step = "idle", !.outcome = "failed"]
    /\ pc' = "up"
    /\ UNCHANGED storage_file
    /\ UNCHANGED saveFrame
    /\ UNCHANGED loopVars

\* days go by between two calls of the store, or while the process is down
TickStore(d) ==
    /\ pc \in {"up", "down"}
    /\ Tick(d)

\* no file, the file of an earlier version, or a file that does not parse
PersistFiles == LegacyFiles \cup {CorruptFile}

InitPersist == InitWith(PersistFiles, {1})

NextPersist ==
    \/ BeginLoad
    \/ \E pr_id \in Ids : BeginMark(pr_id)
    \/ \E ok \in BOOLEAN : OpenTemp(ok)
    \/ \E ok \in BOOLEAN : DumpTemp(ok)
    \/ \E ok \in BOOLEAN : RenameTemp(ok)
    \/ \E ok \in BOOLEAN : RemoveTemp(ok)
    \/ \E d \in TickDays : TickStore(d)
    \/ Stop

PersistSpec == InitPersist /\ [][NextPersist]_vars

\* --------------------------------------------- the prune, step by step
\* a prune that, like load_seen_prs, empties memory when the reading raises
BeginCleanupResets(days) ==
    /\ pc = "up"
    /\ LET r == cleanup_old_entries(seen_prs, storage_file, days, now, FALSE)
           reads == /\ storage_file.kind = "json"
                    /\ ~CleanupScan(storage_file.prs, now - days).raised
       IN  /\ seen_prs' = IF reads \/ storage_file.kind = "absent"
                          THEN r.seen ELSE {}
           /\ IF reads
              THEN /\ pc' = "save"
                   /\ saving' = Saving("cleanup", 0, get_seen_count(r.seen))
              ELSE /\ pc' = "up"
                   /\ saving' = NotSaving
    /\ op' = [name |-> "cleanup", id |-> days, already |-> FALSE]
    /\ UNCHANGED <<now, ticks, storage_file, temp_file, writers, loaded, stopped,
                   synced, legacy>>
    /\ UNCHANGED loopVars

\* cleanup_old_entries, up to the call of save_seen_prs or, when the file is
\* absent or the reading raises, to the return
BeginCleanup(days) ==
    /\ pc = "up"
    /\ LET r == cleanup_old_entries(seen_prs, storage_file, days, now, FALSE)
           reads == /\ storage_file.kind = "json"
                    /\ ~CleanupScan(storage_file.prs, now - days).raised
       IN  /\ seen_prs' = r.seen
           /\ IF reads
              THEN /\ pc' = "save"
                   /\ saving' = Saving("cleanup", 0, get_seen_count(r.seen))
              ELSE /\ pc' = "up"
                   /\ saving' = NotSaving
    /\ op' = [name |-> "cleanup", id |-> days, already |-> FALSE]
    /\ UNCHANGED <<now, ticks, storage_file, temp_file, writers, loaded, stopped,
                   synced, legacy>>
    /\ UNCHANGED loopVars

InitPrune == InitWith(AnyFiles, {1})

NextPrune ==
    \/ BeginLoad
    \/ \E pr_id \in Ids : BeginMark(pr_id)
    \/ \E days \in CleanupDays : BeginCleanup(days)
    \/ \E ok \in BOOLEAN : OpenTemp(ok)
    \/ \E ok \in BOOLEAN : DumpTemp(ok)
    \/ \E ok \in BOOLEAN : RenameTemp(ok)
    \/ \E ok \in BOOLEAN : RemoveTemp(ok)

PruneSpec == InitPrune /\ [][NextPrune]_vars

\* ------------------------------------- two processes saving to one file
\* each process runs save_seen_prs as above; both use the same temporary
\* path, "seen_prs.json.tmp".  writers[w].at is the path at which the file
\* that w has open for writing is found: a rename moves an open file with it
overlapFrame == <<now, ticks, seen_prs, pc, op, loaded, stopped, synced, legacy,
                  saving>>

\* the data save_seen_prs dumps for a memory of ids
Snapshot(ids) == save_seen_prs(AbsentFile, ids, now, TRUE)

\* the content after `new` is written from offset 0 into a file holding
\* `old`: the bytes of a longer old content stay behind the end of new (an
\* empty or partly written old content is taken to be shorter)
Overwrite(old, new) ==
    IF old.kind = "json" /\ Len(old.prs) > Len(new.prs) THEN CorruptFile ELSE new

\* process w calls save_seen_prs with ids in memory
EnterSave(w, ids) ==
    /\ writers[w].step = "idle"
    /\ writers' = [writers EXCEPT ![w] = [step |-> "open", at |-> "none",
                                          data |-> ids]]
    /\ UNCHANGED <<storage_file, temp_file>>
    /\ UNCHANGED overlapFrame
    /\ UNCHANGED loopVars

\* open(temp_file, 'w') by w: the file at the temporary path is truncated, or
\* created if there is none
OpenTempBy(w, ok) ==
    /\ writers[w].step = "open"
    /\ IF ok
       THEN /\ temp_file' = CorruptFile
            /\ writers' = [writers EXCEPT ![w].step = "dump", ![w].at = "tmp"]
       ELSE /\ temp_file' = temp_file
            /\ writers' = [writers EXCEPT ![w].step = "except"]
    /\ UNCHANGED storage_file
    /\ UNCHANGED overlapFrame
    /\ UNCHANGED loopVars

\* json.dump and close by w, into the file w has open, wherever it is now
DumpTempBy(w, ok) ==
    /\ writers[w].step = "dump"
    /\ temp_file' = IF writers[w].at # "tmp" THEN temp_file
                    ELSE IF ok THEN Overwrite(temp_file, Snapshot(writers[w].data))
                    ELSE CorruptFile
    /\ storage_file' = IF writers[w].at # "backing" THEN storage_file
                       ELSE IF ok THEN Overwrite(storage_file, Snapshot(writers[w].data))
                       ELSE CorruptFile
    /\ writers' = [writers EXCEPT ![w].step = IF ok THEN "rename" ELSE "except",
                                  ![w].at = "none"]
    /\ UNCHANGED overlapFrame
    /\ UNCHANGED loopVars

\* os.rename(temp_file, self.storage_file) by w: FileNotFoundError when the
\* other process has renamed or removed the temporary file
RenameTempBy(w, ok) ==
    /\ writers[w].step = "rename"
    /\ IF temp_file.kind # "absent" /\ ok
       THEN /\ storage_file' = temp_file
            /\ temp_file' = AbsentFile
            /\ writers' = [v \in Writers |->
                             IF v = w THEN IdleWriter
                             ELSE [writers[v] EXCEPT !.at =
                                     CASE @ = "tmp" -> "backing"
                                       [] @ = "backing" -> "gone"
                                       [] OTHER -> @]]
       ELSE /\ writers' = [writers EXCEPT ![w].step = "except"]
            /\ UNCHANGED <<storage_file, temp_file>>
    /\ UNCHANGED overlapFrame
    /\ UNCHANGED loopVars

\* the except block of w: the temporary file, whoever wrote it, is removed
RemoveTempBy(w, ok) ==
    /\ writers[w].step = "except"
    /\ IF temp_file.kind # "absent" /\ ok
       THEN /\ temp_file' = AbsentFile
            /\ writers' = [v \in Writers |->
                             IF v = w THEN IdleWriter
                             ELSE [writers[v] EXCEPT !.at =
                                     IF @ = "tmp" THEN "gone" ELSE @]]
       ELSE /\ temp_file' = temp_file
            /\ writers' = [writers EXCEPT ![w] = IdleWriter]
    /\ UNCHANGED storage_file
    /\ UNCHANGED overlapFrame
    /\ UNCHANGED loopVars

InitOverlap == InitWith(LegacyFiles, {1})

NextOverlap ==
    \/ \E w \in Writers, ids \in SUBSET EventIds : EnterSave(w, ids)
    \/ \E w \in Writers, ok \in BOOLEAN : OpenTempBy(w, ok)
    \/ \E w \in Writers, ok \in BOOLEAN : DumpTempBy(w, ok)
    \/ \E w \in Writers, ok \in BOOLEAN : RenameTempBy(w, ok)
    \/ \E w \in Writers, ok \in BOOLEAN : RemoveTempBy(w, ok)

OverlapSpec == InitOverlap /\ [][NextOverlap]_vars

\* -------------------------------------------------------- the poll loop
\* what get_merged_prs returns when the request succeeds: the ids of the
\* pull requests merged into the branch (each once), in the order of the API
Range(q) == {q[i] : i \in 1..Len(q)}

RECURSIVE SeqsUpTo(_, _)
SeqsUpTo(S, n) ==
    IF n = 0 THEN {<<>>}
    ELSE SeqsUpTo(S, n - 1)
           \cup UNION {{Append(q, x) : x \in S \ Range(q)} :
                         q \in {r \in SeqsUpTo(S, n - 1) : Len(r) = n - 1}}

FetchLists == SeqsUpTo(EventIds, Cardinality(EventIds))

storeHistory == <<loaded, legacy, temp_file, saving, writers>>

\* main: the components are initialized and the loop is entered
Start(ok) ==
    /\ Construct(ok, "poll")
    /\ branch' = 1
    /\ all_new_prs' = <<>>
    /\ atStart' = load_seen_prs(storage_file, now, ok).seen
    /\ UNCHANGED <<sent, fetched, watched, durable, stopped, synced>>
    /\ UNCHANGED storeHistory

\* a failed fetch that leaves the loop over the branches (break for continue)
FetchFailAborts ==
    /\ pc = "poll"
    /\ branch <= Len(target_branches)
    /\ branch' = Len(target_branches) + 1
    /\ op' = [name |-> "fetchFail", id |-> 0, already |-> FALSE]
    /\ UNCHANGED <<now, ticks, storage_file, seen_prs, pc, all_new_prs, stopped,
                   synced, sent, fetched, atStart, watched, durable>>
    /\ UNCHANGED storeHistory

\* get_merged_prs(branch) returns None: the branch is skipped
FetchFail ==
    /\ pc = "poll"
    /\ branch <= Len(target_branches)
    /\ branch' = branch + 1
    /\ op' = [name |-> "fetchFail", id |-> 0, already |-> FALSE]
    /\ UNCHANGED <<now, ticks, storage_file, seen_prs, pc, all_new_prs, stopped,
                   synced, sent, fetched, atStart, watched, durable>>
    /\ UNCHANGED storeHistory

\* a filter that gives up an id whose save failed: the id is marked and not
\* appended to all_new_prs
RECURSIVE FilterPrsStrict(_, _, _, _)
FilterPrsStrict(prs, st, t, failing) ==
    IF prs = <<>> THEN st
    ELSE LET pr_id == Head(prs)
             r == mark_pr_as_seen(st.seen, st.file, pr_id, t, pr_id \notin failing)
         IN  IF ~has_seen_pr(st.seen, pr_id)
             THEN FilterPrsStrict(Tail(prs),
                            [seen |-> r.seen, file |-> r.file,
                             new |-> IF pr_id \in failing THEN st.new
                                     ELSE Append(st.new, pr_id),
                             last |-> [id |-> pr_id, already |-> FALSE]],
                            t, failing)
             ELSE FilterPrsStrict(Tail(prs),
                            [st EXCEPT !.last = [id |-> pr_id, already |-> TRUE]],
                            t, failing)

\* `for pr in merged_prs`: an unseen pr is appended to all_new_prs and marked
\* as seen; `failing` are the ids whose save fails. st = [seen, file, new, last]
RECURSIVE FilterPrs(_, _, _, _)
FilterPrs(prs, st, t, failing) ==
    IF prs = <<>> THEN st
    ELSE LET pr_id == Head(prs)
             r == mark_pr_as_seen(st.seen, st.file, pr_id, t, pr_id \notin failing)
         IN  IF ~has_seen_pr(st.seen, pr_id)
             THEN FilterPrs(Tail(prs),
                            [seen |-> r.seen, file |-> r.file,
                             new |-> Append(st.new, pr_id),
                             last |-> [id |-> pr_id, already |-> FALSE]],
                            t, failing)
             ELSE FilterPrs(Tail(prs),
                            [st EXCEPT !.last = [id |-> pr_id, already |-> TRUE]],
                            t, failing)

\* get_merged_prs(branch) returns the list prs, which is then filtered
FetchOk(prs, failing) ==
    /\ pc = "poll"
    /\ branch <= Len(target_branches)
    /\ LET st == FilterPrs(prs, [seen |-> seen_prs, file |-> storage_file,
                                 new |-> all_new_prs,
                                 last |-> [id |-> 0, already |-> FALSE]],
                           now, failing)
       IN  /\ seen_prs' = st.seen
           /\ storage_file' = st.file
           /\ all_new_prs' = st.new
           /\ op' = [name |-> "fetch", id |-> st.last.id, already |-> st.last.already]
           /\ durable' = IF watched \in st.seen \ seen_prs /\ watched \notin failing
                         THEN [set |-> TRUE, t |-> now]
                         ELSE durable
    /\ fetched' = fetched \cup Range(prs)
    /\ branch' = branch + 1
    /\ UNCHANGED <<now, ticks, pc, stopped, synced, sent, atStart, watched>>
    /\ UNCHANGED storeHistory

\* every branch was checked: `if all_new_prs`
CheckNew ==
    /\ pc = "poll"
    /\ branch > Len(target_branches)
    /\ pc' = IF all_new_prs # <<>> THEN "send" ELSE "sleep"
    /\ op' = [name |-> "checkNew", id |-> 0, already |-> FALSE]
    /\ UNCHANGED <<now, ticks, storage_file, seen_prs, branch, all_new_prs,
                   stopped, synced, sent, fetched, atStart, watched, durable>>
    /\ UNCHANGED storeHistory

\* one iteration of `for pr in all_new_prs`: send_pr_notification returns
\* True or False and never raises
Send(success) ==
    /\ pc = "send"
    /\ all_new_prs # <<>>
    /\ sent' = [sent EXCEPT ![Head(all_new_prs)] = @ + 1]
    /\ all_new_prs' = Tail(all_new_prs)
    /\ pc' = IF Tail(all_new_prs) = <<>> THEN "sleep" ELSE "send"
    /\ op' = [name |-> "send", id |-> Head(all_new_prs), already |-> success]
    /\ UNCHANGED <<now, ticks, storage_file, seen_prs, branch, stopped, synced,
                   fetched, atStart, watched, durable>>
    /\ UNCHANGED storeHistory

\* time.sleep(config.polling_interval) is over: the next cycle begins
Wake ==
    /\ pc = "sleep"
    /\ pc' = "poll"
    /\ branch' = 1
    /\ all_new_prs' = <<>>
    /\ op' = [name |-> "wake", id |-> 0, already |-> FALSE]
    /\ UNCHANGED <<now, ticks, storage_file, seen_prs, stopped, synced, sent,
                   fetched, atStart, watched, durable>>
    /\ UNCHANGED storeHistory

\* days go by while the loop sleeps or the process is down (a polling cycle
\* itself takes seconds)
TickIdle(d) ==
    /\ pc \in {"sleep", "down"}
    /\ Tick(d)

Init == InitWith({AbsentFile}, EventIds)

Next ==
    \/ \E ok \in BOOLEAN : Start(ok)
    \/ FetchFail
    \/ \E prs \in FetchLists :
          \E failing \in SUBSET (Range(prs) \ seen_prs) : FetchOk(prs, failing)
    \/ CheckNew
    \/ \E success \in BOOLEAN : Send(success)
    \/ Wake
    \/ \E d \in TickDays : TickIdle(d)
    \/ Stop

Spec == Init /\ [][Next]_vars

\* ------------------------------------------------------------ properties
\* ids inserted by mark_pr_as_seen in this process
Marked == seen_prs \ atStart

\* C1: within one process, every id returned by a successful fetch and not
\* already in the store when the process started has had exactly one send by
\* the end of its polling cycle, and no id ever has two, whatever the sends
\* returned and however often the id is returned again.
ExactlyOneSend ==
    /\ \A id \in EventIds : sent[id] <= 1
    /\ pc = "sleep" => \A id \in fetched : id \in atStart \/ sent[id] = 1

\* an id already sent in this process is returned again in a later cycle
ExactlyOneSendWitness ==
    /\ op.name = "fetch"
    /\ op.already
    /\ op.id \notin atStart
    /\ sent[op.id] = 1

\* C2: an id whose insertion was saved is in the store of every process that
\* starts while the insertion is younger than the retention window, and such
\* a process sends nothing for it.
DurableSurvivesRestart ==
    (pc # "down" /\ durable.set /\ now - durable.t < RetentionDays)
        => /\ has_seen_pr(seen_prs, watched)
           /\ watched \in atStart => sent[watched] = 0

\* a later process, started within the window, is handed the id again
DurableSurvivesRestartWitness ==
    /\ pc # "down"
    /\ durable.set
    /\ now - durable.t < RetentionDays
    /\ now > durable.t
    /\ watched \in atStart
    /\ watched \in fetched
    /\ op.name = "checkNew"

\* C3: every id that mark_pr_as_seen inserted in this process has already had
\* its notification attempted.
ProcessedBeforeMarked ==
    \A id \in Marked : sent[id] >= 1

\* C4: mark_pr_as_seen of an id that is already present changes neither the
\* in-memory set (so not the count either) nor the backing file.
MarkSeenIdempotent ==
    [][(op'.name = "markSeen" /\ op'.already)
          => /\ seen_prs' = seen_prs
             /\ storage_file' = storage_file
             /\ has_seen_pr(seen_prs', op'.id)
             /\ get_seen_count(seen_prs') = get_seen_count(seen_prs)]_vars

\* a present id was marked again, later than the file was written
MarkSeenIdempotentWitness ==
    /\ op.name = "markSeen"
    /\ op.already
    /\ has_seen_pr(seen_prs, op.id)
    /\ storage_file.kind = "json"
    /\ storage_file.last_updated < now

\* C5: a store whose last save succeeded, stopped and constructed again at the
\* same time from the same file, holds the same set of ids.
RoundTrip ==
    [][(pc = "down" /\ pc' = "up" /\ stopped.valid /\ stopped.synced
          /\ stopped.time = now)
          => seen_prs' = stopped.seen]_vars

\* the state after a load of a file that parsed as JSON
AfterLoad == op.name = "load" /\ loaded.file.kind = "json"

\* the records with an id and a timestamp that parses
Timestamped(f) ==
    {e \in Range(f.prs) : e.tag = "dict" /\ e.hasId /\ e.tsKind = "iso"}

\* C6: after a load of a parseable file every id in memory comes from a record
\* within the window or from a bare integer, a timestamped record older than
\* the window is absent and one younger than the window is present.
LoadExpiry ==
    AfterLoad =>
      /\ \A id \in seen_prs :
            \/ id \in LegacyIds(loaded.file)
            \/ \E e \in Timestamped(loaded.file) :
                  e.id = id /\ loaded.time - e.ts <= RetentionDays
      /\ \A e \in Timestamped(loaded.file) :
            /\ loaded.time - e.ts > RetentionDays => ~has_seen_pr(seen_prs, e.id)
            /\ loaded.time - e.ts < RetentionDays => has_seen_pr(seen_prs, e.id)

\* C7: load includes a timestamped record if and only if its age is strictly
\* less than the retention window.
LoadIffStrictlyYounger ==
    AfterLoad =>
      \A e \in Timestamped(loaded.file) :
          has_seen_pr(seen_prs, e.id) <=> loaded.time - e.ts < RetentionDays

\* the timestamp of every object of the file is a string or is missing
StringTimestamps(f) == \A e \in Range(f.prs) : e.tsKind # "nonstr"

\* C8: after a load of a file that mixes bare integers and objects (whose
\* timestamps, where present, are strings), every bare integer is in memory.
LegacyKept ==
    (AfterLoad /\ StringTimestamps(loaded.file))
        => \A id \in LegacyIds(loaded.file) : has_seen_pr(seen_prs, id)

\* a bare integer was loaded next to an expired object
LegacyKeptWitness ==
    /\ AfterLoad
    /\ LegacyIds(loaded.file) # {}
    /\ \E e \in Timestamped(loaded.file) : loaded.time - e.ts > RetentionDays
    /\ LegacyIds(loaded.file) \subseteq seen_prs

\* C9: an id that was loaded from a bare integer is in memory after every
\* later load.
LegacyNeverExpires ==
    op.name = "load" => legacy \subseteq seen_prs

\* the timestamps the file holds for an id
Stamps(f, id) ==
    {e.ts : e \in {x \in Range(f.prs) : x.tag = "dict" /\ x.hasId /\ x.id = id}}

\* C10: the timestamp the file holds for an id is the time of the call that
\* inserted it, and no later operation changes it while the id stays in the
\* store.
TimestampFixed ==
    [][\A id \in Ids :
         /\ (op'.name = "markSeen" /\ op'.id = id /\ ~op'.already
               /\ storage_file' # storage_file)
               => Stamps(storage_file', id) = {now}
         /\ (Stamps(storage_file, id) # {} /\ Stamps(storage_file', id) # {}
               /\ id \in seen_prs /\ id \in seen_prs')
               => Stamps(storage_file', id) = Stamps(storage_file, id)]_vars

\* C11: a store constructed over a backing file that does not parse is up and
\* empty (count 0, has_seen_pr false for every id), and a mark_pr_as_seen that
\* follows and whose save succeeds puts the id in memory and replaces the file
\* by a snapshot of memory.
CorruptionTolerated ==
    /\ (op.name = "load" /\ storage_file.kind = "corrupt")
          => /\ pc = "up"
             /\ get_seen_count(seen_prs) = 0
             /\ \A id \in Ids : ~has_seen_pr(seen_prs, id)
    /\ (op.name = "markSeen" /\ pc = "up" /\ saving.outcome = "saved"
          /\ saving.prev.kind = "corrupt")
          => /\ has_seen_pr(seen_prs, op.id)
             /\ get_seen_count(seen_prs) = saving.count + 1
             /\ storage_file = save_seen_prs(saving.prev, seen_prs, now, TRUE)

\* the first mark_pr_as_seen after a load of a file that does not parse
CorruptionToleratedWitness ==
    /\ op.name = "markSeen"
    /\ pc = "up"
    /\ saving.outcome = "saved"
    /\ saving.prev.kind = "corrupt"
    /\ seen_prs = {op.id}
    /\ storage_file.kind = "json"

\* the records of a file that are well formed: a bare integer, or an object
\* with a positive id and a timestamp string that parses
WellFormed(f) ==
    {e \in Range(f.prs) :
        e.tag = "int" \/ (e.tag = "dict" /\ e.hasId /\ e.id > 0 /\ e.tsKind = "iso")}

\* C12: after a load of a parseable file, every well-formed record that is
\* not expired is in memory, whatever malformed records (no id, no timestamp,
\* a timestamp that does not parse or is not a string) the file holds besides.
MalformedSkipped ==
    AfterLoad =>
      \A e \in WellFormed(loaded.file) :
          (e.tag = "int" \/ loaded.time - e.ts < RetentionDays)
              => has_seen_pr(seen_prs, e.id)

\* C13: while save_seen_prs runs, the backing file is the one the save found
\* (absent, or the previous content); every step, a failing step and the end
\* of the process included, leaves it so, except the rename, which replaces
\* it by the complete snapshot of memory; when the rename fails after the
\* temporary file was written, the previous file is intact and loads as before.
AtomicPublish ==
    [][pc = "save" =>
         /\ storage_file = saving.prev
         /\ \/ storage_file' = saving.prev
            \/ /\ saving.step = "rename"
               /\ storage_file' = save_seen_prs(saving.prev, seen_prs, now, TRUE)
         /\ (saving.step = "rename" /\ saving'.step = "except")
               => /\ storage_file' = saving.prev
                  /\ load_seen_prs(storage_file', now, FALSE).seen
                        = load_seen_prs(saving.prev, now, FALSE).seen]_vars

\* the rename failed: the complete temporary file lies next to the previous
\* backing file
AtomicPublishWitness ==
    /\ pc = "save"
    /\ saving.step = "except"
    /\ temp_file.kind = "json"
    /\ saving.prev.kind = "json"
    /\ storage_file = saving.prev
    /\ storage_file # temp_file

\* mark_pr_as_seen of a new id has returned and its save had failed
MarkFailed ==
    /\ op.name = "markSeen"
    /\ saving.caller = "mark"
    /\ saving.step = "idle"
    /\ saving.outcome \in {"failed", "left"}

\* C14, as stated: when the save of mark_pr_as_seen(id) fails, the call
\* returns, id is in memory and the count is one higher, the backing file is
\* the previous one and there is no temporary file.
FailedPersistClean ==
    MarkFailed =>
      /\ pc = "up"
      /\ has_seen_pr(seen_prs, op.id)
      /\ get_seen_count(seen_prs) = saving.count + 1
      /\ storage_file = saving.prev
      /\ temp_file.kind = "absent"

\* C14, amended: as above, but a temporary file is left when, and only when,
\* its removal failed as well.
FailedPersistKeepsMemory ==
    MarkFailed =>
      /\ pc = "up"
      /\ has_seen_pr(seen_prs, op.id)
      /\ get_seen_count(seen_prs) = saving.count + 1
      /\ storage_file = saving.prev
      /\ temp_file.kind # "absent" <=> saving.outcome = "left"

\* the rename failed over an existing backing file and the temporary file
\* was removed
FailedPersistKeepsMemoryWitness ==
    /\ MarkFailed
    /\ saving.outcome = "failed"
    /\ saving.prev.kind = "json"
    /\ storage_file = saving.prev
    /\ temp_file.kind = "absent"
    /\ ~(seen_prs \subseteq LegacyIds(storage_file))

\* C15: an id that mark_pr_as_seen has just inserted is still in memory after
\* a cleanup_old_entries with the default window that follows at once (the id
\* is no older than the call), whether its save succeeded or not.
SeenForLifetime ==
    [][(op.name = "markSeen" /\ ~op.already /\ op'.name = "cleanup"
          /\ op'.id = RetentionDays)
          => has_seen_pr(seen_prs', op.id)]_vars

\* C16: when mark_pr_as_seen of a new id returns and its save succeeded, the
\* backing file is the snapshot of memory taken by that call: it holds exactly
\* the ids of memory, those whose own save had failed included, and nothing
\* is left in a temporary file.
SynchronousPersist ==
    (op.name = "markSeen" /\ saving.caller = "mark" /\ saving.step = "idle"
        /\ saving.outcome = "saved")
        => /\ FileIds(storage_file) = seen_prs
           /\ storage_file.last_updated = now
           /\ temp_file.kind = "absent"

\* the save that succeeded also wrote an id that no earlier save had written
SynchronousPersistWitness ==
    /\ op.name = "markSeen"
    /\ saving.caller = "mark"
    /\ saving.step = "idle"
    /\ saving.outcome = "saved"
    /\ saving.prev.kind = "json"
    /\ ~((seen_prs \ {op.id}) \subseteq FileIds(saving.prev))
    /\ FileIds(storage_file) = seen_prs

\* the timestamped records of a file that are older than the window at time t
Expired(f, t) == {e \in Timestamped(f) : t - e.ts > RetentionDays}

\* C17: when a load that ran to its end found a record older than the window
\* and the save it then calls succeeded, no id of such a record is in memory
\* and the backing file has been rewritten to hold exactly the ids of memory.
LoadRewritesPruned ==
    (AfterLoad /\ loaded.ok /\ Expired(loaded.file, loaded.time) # {}
        /\ ~LoadScan(loaded.file.prs, loaded.time - RetentionDays).raised)
        => /\ \A e \in Expired(loaded.file, loaded.time) : ~has_seen_pr(seen_prs, e.id)
           /\ storage_file # loaded.file
           /\ FileIds(storage_file) = seen_prs
           /\ Len(storage_file.prs) = get_seen_count(seen_prs)

\* the file of the scenario: an expired record, a young one and a bare
\* integer; the young id and the integer are in memory and in the file
LoadRewritesPrunedWitness ==
    /\ AfterLoad
    /\ loaded.ok
    /\ Len(loaded.file.prs) = 3
    /\ \E e \in Expired(loaded.file, loaded.time) :
         \E y \in Timestamped(loaded.file) :
           \E i \in LegacyIds(loaded.file) :
              /\ loaded.time - y.ts < RetentionDays
              /\ seen_prs = {y.id, i}
              /\ ~has_seen_pr(seen_prs, e.id)
              /\ FileIds(storage_file) = {y.id, i}

\* the ids cleanup_old_entries(days) is to keep from file f at time t: those
\* of the bare integers and of the timestamped records not older than days
KeptByPrune(f, days, t) ==
    LegacyIds(f) \cup {e.id : e \in {x \in Timestamped(f) : t - x.ts <= days}}

\* C18: a cleanup_old_entries(days) that reads a parseable file, runs to its
\* end and whose save succeeds makes memory the set of the ids of the bare
\* integers and of the timestamped records not older than days, whatever
\* memory held before, and leaves the file with exactly these ids: a record
\* older than days is in neither.
PruneExact ==
    [][(op'.name = "cleanup" /\ storage_file.kind = "json" /\ synced'
          /\ ~CleanupScan(storage_file.prs, now - op'.id).raised)
          => /\ seen_prs' = KeptByPrune(storage_file, op'.id, now)
             /\ FileIds(storage_file') = KeptByPrune(storage_file, op'.id, now)
             /\ Len(storage_file'.prs) = get_seen_count(seen_prs')
             /\ \A e \in Timestamped(storage_file) :
                   now - e.ts > op'.id
                      => /\ ~has_seen_pr(seen_prs', e.id)
                         /\ e.id \notin FileIds(storage_file')]_vars

\* the file still held an expired record and a bare integer (the save of the
\* load had failed); after the default prune the integer is kept, the expired
\* id is gone from memory and from the file
PruneExactWitness ==
    /\ op.name = "cleanup"
    /\ op.id = RetentionDays
    /\ synced
    /\ ~loaded.ok
    /\ Expired(loaded.file, now) # {}
    /\ LegacyIds(loaded.file) # {}
    /\ seen_prs = KeptByPrune(loaded.file, RetentionDays, now)
    /\ FileIds(storage_file) = seen_prs
    /\ \A e \in Expired(loaded.file, now) : e.id \notin FileIds(storage_file)

\* C19: after a cleanup_old_entries with the default window that ran to its
\* end and was saved, an id whose last insertion was saved more than the
\* window ago is neither in memory nor in the backing file, whatever other
\* ids were marked and whatever else was saved in between.
RetentionBounded ==
    (op.name = "cleanup" /\ op.id = RetentionDays /\ synced
        /\ durable.set /\ now - durable.t > RetentionDays)
        => /\ ~has_seen_pr(seen_prs, watched)
           /\ watched \notin FileIds(storage_file)

\* ids of memory that the backing file does not hold: their save failed and
\* no save has succeeded since
Unsaved == seen_prs \ FileIds(storage_file)

\* C20: every id marked in this process, its save failed or not, is queued in
\* all_new_prs until it is sent and has had its send when the loop goes to
\* sleep; the process stops only when it is stopped from outside, so the next
\* cycle follows.
DeliveryDespiteFailedSave ==
    /\ \A id \in Marked :
          \/ sent[id] = 1
          \/ /\ pc \in {"poll", "send"}
             /\ sent[id] = 0
             /\ id \in Range(all_new_prs)
    /\ pc = "down" => op.name \in {"init", "stop", "tick"}
    /\ pc = "sleep" => ENABLED Wake

\* the next cycle has begun although ids marked in the last one are not in
\* the backing file; each of them was sent
DeliveryDespiteFailedSaveWitness ==
    /\ op.name = "wake"
    /\ pc = "poll"
    /\ Unsaved # {}
    /\ Unsaved \subseteq Marked
    /\ \A id \in Marked : sent[id] = 1

\* C21: while two processes save to the same backing file, their steps
\* interleaved in any order, the backing file never holds an empty or partly
\* written content, so a load at any time, and after both have finished,
\* parses it.
OverlappingWritesSafe ==
    storage_file.kind # "corrupt"

\* C22: a fetch that fails marks nothing, queues nothing, sends nothing and
\* writes nothing, and the loop goes on with the next branch of the same
\* cycle; a fetch that succeeds, in this or a later cycle, queues every id it
\* returns that is not in memory, so an id missed by the failure is still
\* unseen then and gets its send.
FetchFailureSkipsBranch ==
    [][/\ op'.name = "fetchFail"
          => /\ seen_prs' = seen_prs
             /\ storage_file' = storage_file
             /\ all_new_prs' = all_new_prs
             /\ sent' = sent
             /\ pc' = "poll"
             /\ branch' = branch + 1
       /\ op'.name = "fetch"
          => /\ fetched' \subseteq seen_prs'
             /\ seen_prs' \ seen_prs = fetched' \ (fetched \cup seen_prs)
             /\ seen_prs' \ seen_prs \subseteq Range(all_new_prs')
             /\ \A id \in seen_prs' \ seen_prs : sent[id] = 0]_vars

\* the fetch for the first branch has failed in a cycle after the first: the
\* second branch is still to be fetched and an id is still unseen
FetchFailureSkipsBranchWitness ==
    /\ op.name = "fetchFail"
    /\ pc = "poll"
    /\ branch = 2
    /\ all_new_prs = <<>>
    /\ Marked # {}
    /\ EventIds \ seen_prs # {}

\* C23: a prune with the retention of the load leaves in memory the set that a
\* load of the same backing file at the same time leaves, whatever records
\* the file holds.
PruneEqualsLoad ==
    [][(op'.name = "cleanup" /\ op'.id = RetentionDays
          /\ storage_file.kind = "json")
          => seen_prs' = load_seen_prs(storage_file, now, TRUE).seen]_vars

\* the prune cannot read a snapshot: no file, a file that does not parse, or
\* a record on which the scan raises
CannotRead(f, days, t) ==
    \/ f.kind \in {"absent", "corrupt"}
    \/ CleanupScan(f.prs, t - days).raised

\* C24: a prune that cannot read a snapshot returns without raising, with
\* memory, the backing file and the temporary file as they were before the
\* call, and without having started a save.
PruneFrame ==
    [][(op'.name = "cleanup" /\ pc = "up"
          /\ CannotRead(storage_file, op'.id, now))
          => /\ seen_prs' = seen_prs
             /\ storage_file' = storage_file
             /\ temp_file' = temp_file
             /\ pc' = "up"
             /\ saving'.step = "idle"]_vars

\* a prune has returned from a scan that raised, over memory that holds ids
PruneFrameWitness ==
    /\ op.name = "cleanup"
    /\ pc = "up"
    /\ storage_file.kind = "json"
    /\ CannotRead(storage_file, op.id, now)
    /\ seen_prs # {}

====
